---- MODULE Spec2Model ----
(***************************************************************************)
(* FitFact query cache: CacheManager (database_files/cache_manager.py),    *)
(* the FitFactDB accessors it shares a connection with (database.py) and   *)
(* the Streamlit pipeline that drives them (interface/app.py).             *)
(*                                                                         *)
(* Text is modelled character by character: a string is a sequence of     *)
(* one-character strings, so that lowercasing, the punctuation regex,      *)
(* split/sort/join, str.replace and the trigram similarity are computed    *)
(* the way the code computes them.                                         *)
(***************************************************************************)
EXTENDS Integers, Sequences, FiniteSets, Bags, TLC

(***************************************************************************)
(* Characters                                                              *)
(***************************************************************************)
LowerCase == <<"a", "b", "c", "d", "e", "f", "g", "h", "i", "j", "k", "l", "m", "n", "o", "p", "q", "r", "s", "t", "u", "v", "w", "x", "y", "z">>
UpperCase == <<"A", "B", "C", "D", "E", "F", "G", "H", "I", "J", "K", "L", "M", "N", "O", "P", "Q", "R", "S", "T", "U", "V", "W", "X", "Y", "Z">>
Space == " "
Punctuation == {"?", "!", ","}

NULL == "NULL"
\* Python's None where a record may stand, SQL NULL where a text may stand
None == [none |-> TRUE]
NullText == <<NULL>>

RECURSIVE IndexOf(_, _, _)
IndexOf(c, alphabet, i) ==
    IF i > Len(alphabet) THEN 0
    ELSE IF alphabet[i] = c THEN i
    ELSE IndexOf(c, alphabet, i + 1)

\* str.lower() on one character
lower_char(c) ==
    LET i == IndexOf(c, UpperCase, 1) IN IF i = 0 THEN c ELSE LowerCase[i]

\* str.upper() on one character
upper_char(c) ==
    LET i == IndexOf(c, LowerCase, 1) IN IF i = 0 THEN c ELSE UpperCase[i]

lower(s) == [i \in 1..Len(s) |-> lower_char(s[i])]
upper(s) == [i \in 1..Len(s) |-> upper_char(s[i])]

\* \w of the regex: letters (digits and "_" are not in the model's alphabet)
IsWordChar(c) == IndexOf(c, LowerCase, 1) > 0 \/ IndexOf(c, UpperCase, 1) > 0
\* \s of the regex
IsSpaceChar(c) == c = Space

\* code-point order of the characters that survive lower() and the regex
Ord(c) == IF c = Space THEN 0 ELSE IndexOf(c, LowerCase, 1)

RECURSIVE StrLess(_, _)
\* Python's < on str: lexicographic by code point, a proper prefix is smaller
StrLess(a, b) ==
    IF Len(b) = 0 THEN FALSE
    ELSE IF Len(a) = 0 THEN TRUE
    ELSE IF Ord(a[1]) < Ord(b[1]) THEN TRUE
    ELSE IF Ord(a[1]) > Ord(b[1]) THEN FALSE
    ELSE StrLess(Tail(a), Tail(b))

(***************************************************************************)
(* CacheManager.normalize_query                                            *)
(***************************************************************************)
\* re.sub(r'[^\w\s]', '', s)
strip_punctuation(s) == SelectSeq(s, LAMBDA c : IsWordChar(c) \/ IsSpaceChar(c))

RECURSIVE SplitFrom(_, _, _)
\* str.split(): maximal runs of non-whitespace; cur is the run being read
SplitFrom(s, i, cur) ==
    IF i > Len(s) THEN (IF cur = <<>> THEN <<>> ELSE <<cur>>)
    ELSE IF IsSpaceChar(s[i])
         THEN (IF cur = <<>> THEN <<>> ELSE <<cur>>) \o SplitFrom(s, i + 1, <<>>)
         ELSE SplitFrom(s, i + 1, Append(cur, s[i]))

split(s) == SplitFrom(s, 1, <<>>)

stop_words == {
    <<"w", "h", "a", "t">>,
    <<"i", "s">>,
    <<"t", "h", "e">>,
    <<"o", "f">>,
    <<"f", "o", "r">>,
    <<"a", "n", "d">>,
    <<"a">>,
    <<"a", "n">>,
    <<"t", "o">>,
    <<"i", "n">>,
    <<"a", "r", "e">>,
    <<"h", "o", "w">>
}

\* the list comprehension without its condition
remove_stop_words_none(words) == words
\* [w for w in words if w not in stop_words]
remove_stop_words(words) == SelectSeq(words, LAMBDA w : w \notin stop_words)

RECURSIVE InsertSorted(_, _)
InsertSorted(w, sorted) ==
    IF sorted = <<>> THEN <<w>>
    ELSE IF StrLess(w, sorted[1]) THEN <<w>> \o sorted
    ELSE <<sorted[1]>> \o InsertSorted(w, Tail(sorted))

\* the words left in the order of the query
sort_words_none(words) == words

RECURSIVE sort_words(_)
\* list.sort()
sort_words(words) ==
    IF words = <<>> THEN <<>>
    ELSE InsertSorted(words[1], sort_words(Tail(words)))

RECURSIVE join(_)
\* ' '.join(words)
join(words) ==
    IF words = <<>> THEN <<>>
    ELSE IF Len(words) = 1 THEN words[1]
    ELSE words[1] \o <<Space>> \o join(Tail(words))

normalize_query(query) ==
    join(sort_words(remove_stop_words(split(strip_punctuation(lower(query))))))

(***************************************************************************)
(* CacheManager.apply_synonyms                                             *)
(***************************************************************************)
\* the dict, in insertion order: <<original, normalized>>
synonym_map == <<
    <<<<"w", "h", "e", "y">>,
      <<"p", "r", "o", "t", "e", "i", "n">>>>,
    <<<<"c", "r", "e", "a", "t", "i", "n", "e", " ", "m", "o", "n", "o", "h", "y", "d", "r", "a", "t", "e">>,
      <<"c", "r", "e", "a", "t", "i", "n", "e">>>>,
    <<<<"h", "i", "i", "t">>,
      <<"h", "i", "g", "h", " ", "i", "n", "t", "e", "n", "s", "i", "t", "y", " ", "i", "n", "t", "e", "r", "v", "a", "l", " ", "t", "r", "a", "i", "n", "i", "n", "g">>>>,
    <<<<"w", "e", "i", "g", "h", "t", "s">>,
      <<"r", "e", "s", "i", "s", "t", "a", "n", "c", "e", " ", "t", "r", "a", "i", "n", "i", "n", "g">>>>,
    <<<<"c", "a", "r", "d", "i", "o">>,
      <<"c", "a", "r", "d", "i", "o", "v", "a", "s", "c", "u", "l", "a", "r", " ", "e", "x", "e", "r", "c", "i", "s", "e">>>>,
    <<<<"s", "u", "p", "p", "l", "e", "m", "e", "n", "t", "s">>,
      <<"s", "u", "p", "p", "l", "e", "m", "e", "n", "t", "a", "t", "i", "o", "n">>>>,
    <<<<"m", "u", "s", "c", "l", "e">>,
      <<"m", "u", "s", "c", "l", "e", "s">>>>,
    <<<<"s", "t", "r", "e", "n", "g", "t", "h">>,
      <<"s", "t", "r", "e", "n", "g", "t", "h", " ", "t", "r", "a", "i", "n", "i", "n", "g">>>>
>>

StartsWithAt(s, i, old) ==
    /\ i + Len(old) - 1 <= Len(s)
    /\ \A k \in 1..Len(old) : s[i + k - 1] = old[k]

RECURSIVE ReplaceFrom(_, _, _, _)
\* str.replace(old, new): every non-overlapping occurrence, left to right
ReplaceFrom(s, i, old, new) ==
    IF i > Len(s) THEN <<>>
    ELSE IF StartsWithAt(s, i, old)
         THEN new \o ReplaceFrom(s, i + Len(old), old, new)
         ELSE <<s[i]>> \o ReplaceFrom(s, i + 1, old, new)

replace(s, old, new) == ReplaceFrom(s, 1, old, new)

RECURSIVE ApplyRules(_, _)
ApplyRules(s, k) ==
    IF k > Len(synonym_map) THEN s
    ELSE ApplyRules(replace(s, synonym_map[k][1], synonym_map[k][2]), k + 1)

apply_synonyms(query) == ApplyRules(lower(query), 1)

(***************************************************************************)
(* CacheManager.calculate_query_hash                                       *)
(***************************************************************************)
\* md5 hex digest: a deterministic function of the text alone; collisions
\* are not modelled, so the digest is a tagged copy of its input
calculate_query_hash(normalized_query) == <<"md5", normalized_query>>

(***************************************************************************)
(* similarity() of PostgreSQL's pg_trgm, as called by the fuzzy SELECT     *)
(***************************************************************************)
\* each word is padded with two blanks in front and one behind
Pad(w) == <<Space, Space>> \o w \o <<Space>>

WordTrigrams(w) == {SubSeq(Pad(w), i, i + 2) : i \in 1..(Len(w) + 1)}

Trigrams(text) ==
    LET words == split(lower(text))
    IN UNION {WordTrigrams(words[i]) : i \in 1..Len(words)}

\* the score as a fraction <<shared, union>>; 0 when either side has no trigram
similarity(a, b) ==
    LET ta == Trigrams(a)
        tb == Trigrams(b)
    IN IF ta = {} \/ tb = {} THEN <<0, 1>>
       ELSE <<Cardinality(ta \cap tb), Cardinality(ta \cup tb)>>

\* x > y on fractions with positive denominators
Greater(x, y) == x[1] * y[2] > y[1] * x[2]
SameScore(x, y) == x[1] * y[2] = y[1] * x[2]

(***************************************************************************)
(* Inputs                                                                  *)
(***************************************************************************)
q_gym_run == <<"g", "y", "m", " ", "r", "u", "n">>
q_run_gym == <<"T", "h", "e", " ", "R", "u", "n", ",", " ", "o", "f", " ", "a", " ", "g", "y", "m", "?">>
q_gym == <<"g", "y", "m">>
q_gym_gym_run == <<"g", "y", "m", " ", "r", "u", "n", " ", "g", "y", "m">>
q_long_a == <<"w", "h", "a", "t", " ", "i", "s", " ", "t", "h", "e", " ", "w", "h", "e", "y", " ", "o", "f", " ", "a", " ", "g", "y", "m", " ", "r", "u", "n">>
q_long_b == <<"H", "o", "w", " ", "i", "s", " ", "a", " ", "g", "y", "m", " ", "r", "u", "n", " ", "f", "o", "r", " ", "t", "h", "e", " ", "w", "h", "e", "y", "?">>
q_long_c == <<"w", "h", "a", "t", " ", "i", "s", " ", "t", "h", "e", " ", "w", "h", "e", "y", " ", "o", "f", " ", "a", " ", "g", "y", "m", " ", "r", "u", "n", "s">>

\* raw user questions: stored directly, looked up directly, put to the pipeline
StoreQueries == {q_gym_run, q_gym}
LookupQueries == {q_run_gym, q_gym, q_gym_gym_run}
PipelineQueries == {q_long_a, q_long_b, q_long_c, q_gym}

\* trigger_auto_cache: f"What does research say about {paper['title'].lower()}"
auto_query_prefix == <<"W", "h", "a", "t", " ", "d", "o", "e", "s", " ", "r", "e", "s", "e", "a", "r", "c", "h", " ", "s", "a", "y", " ", "a", "b", "o", "u", "t", " ">>
auto_query(title) == auto_query_prefix \o lower(title)
\* the title column of research_papers, which no statement changes
t_gym_run == <<"G", "y", "m", " ", "R", "u", "n">>
t_gym == <<"G", "y", "m">>
TitleOf(pmid) == IF pmid = "p1" THEN t_gym_run ELSE t_gym
AutoQueries == {auto_query(t_gym_run), auto_query(t_gym)}

\* raw queries with nothing but stop words and punctuation in them
q_empty == <<>>
q_of_the == <<"O", "f", " ", "t", "h", "e", "?">>
q_marks == <<"?", "!">>
DegenerateQueries == {q_empty, q_of_the, q_marks}

Queries == StoreQueries \cup LookupQueries \cup PipelineQueries \cup AutoQueries
               \cup DegenerateQueries

\* response texts the generation step can produce
Responses == {"r1", "r2"}

\* thresholds callers pass to smart_cache_lookup
default_threshold == <<7, 10>>
Thresholds == {<<1, 5>>, <<1, 2>>, default_threshold}

Callers == {"c1", "c2"}

MaxEntries == 2
MaxTime == 1
MaxServed == 1
MaxUsed == 1

(***************************************************************************)
(* State: the tables the cache reads and writes (only the columns some     *)
(* modelled statement reads or sets), the SERIAL sequences, the clock      *)
(* behind CURRENT_TIMESTAMP, and per caller its connection's transaction   *)
(* status, its position, its locals and the value its last call returned.  *)
(* Every caller works on a connection of its own; a transaction becomes    *)
(* visible to the others at commit.                                        *)
(***************************************************************************)
VARIABLES user_queries, cached_responses, response_citations, research_papers,
          sequences, now, conn, pc, frame, ret

vars == <<user_queries, cached_responses, response_citations, research_papers,
          sequences, now, conn, pc, frame, ret>>

tables == <<user_queries, cached_responses, response_citations, research_papers,
            sequences>>

\* column defaults of cached_responses and research_papers
times_served_default == 0
times_used_default == 0

\* check_auto_cache_eligibility: "times_used >= 20", "LIMIT 10"
promotion_threshold == 20
promotion_limit == 10
\* evict_stale_cache: "times_served < 5", "times_used < 10", days_old = 50
usage_floor == 5
paper_usage_floor == 10
default_days_old == 50
\* papers_used[:5]
MaxCitations == 5
\* len(user_query.split()) >= 8
MinCacheWords == 8

\* pmids the literature search can return, and the ETL batch
Pmids == <<"p1", "p2", "p3", "p4", "p5", "p6">>
FetchedPapers == {<<>>, <<"p2", "p1">>}
\* papers_used lists handed to store_in_cache directly
PaperIdLists == {<<2, 1, 3, 4, 5, 6>>}

NoFrame == [op |-> NULL, query |-> <<>>, threshold |-> <<0, 1>>, response |-> NULL,
            papers |-> <<>>, match |-> None, cutoff |-> 0, stale |-> {}]

Init ==
    /\ user_queries = {}
    /\ cached_responses = {}
    /\ response_citations = {}
    /\ research_papers = {}
    /\ sequences = [query_id |-> 1, response_id |-> 1, paper_id |-> 1]
    /\ now = 0
    /\ conn = [c \in Callers |-> "ok"]
    /\ pc = [c \in Callers |-> "idle"]
    /\ frame = [c \in Callers |-> NoFrame]
    /\ ret = [c \in Callers |-> None]

\* uq JOIN cr ON uq.query_id = cr.query_id
CacheEntries ==
    {e \in user_queries \X cached_responses : e[1].query_id = e[2].query_id}

\* the first three lines of smart_cache_lookup and of store_in_cache, worked
\* out once per input
NormalizedOf == [q \in Queries |-> apply_synonyms(normalize_query(q))]
normalized_with_synonyms(query) == NormalizedOf[query]
query_hash_of(query) == calculate_query_hash(normalized_with_synonyms(query))

NormalizedTexts == {NormalizedOf[q] : q \in Queries}
SimilarityOf == [a \in NormalizedTexts, b \in NormalizedTexts |-> similarity(a, b)]

Min(a, b) == IF a < b THEN a ELSE b

\* the call of caller c returns value; via records which branch produced it
Return(c, value, via) ==
    /\ ret' = [ret EXCEPT ![c] =
                 [op |-> frame[c].op, query |-> frame[c].query,
                  threshold |-> frame[c].threshold, raised |-> FALSE,
                  value |-> value, via |-> via]]
    /\ pc' = [pc EXCEPT ![c] = "idle"]
    /\ frame' = [frame EXCEPT ![c] = NoFrame]

\* the call of caller c ends with an exception that nothing catches
Raise(c) ==
    /\ ret' = [ret EXCEPT ![c] =
                 [op |-> frame[c].op, query |-> frame[c].query,
                  threshold |-> frame[c].threshold, raised |-> TRUE,
                  value |-> None, via |-> "exception"]]
    /\ pc' = [pc EXCEPT ![c] = "idle"]
    /\ frame' = [frame EXCEPT ![c] = NoFrame]

\* room left for one more cached response, counting the calls under way
InFlight == {c \in Callers : pc[c] # "idle" /\ frame[c].op \in {"store_in_cache", "process_query",
                                                     "trigger_auto_cache",
                                                     "integration_query", "main_query"}}
HasRoom == Cardinality(cached_responses) + Cardinality(InFlight) < MaxEntries

Tick ==
    /\ now < MaxTime
    /\ now' = now + 1
    /\ UNCHANGED <<tables, conn, pc, frame, ret>>

(***************************************************************************)
(* FitFactDB.save_paper and batch_insert_papers                            *)
(***************************************************************************)
\* the INSERT with ON CONFLICT (pmid) DO NOTHING in the place of DO UPDATE
save_paper_row_do_nothing(papers, next_id, pmid) ==
    IF \E p \in papers : p.pmid = pmid
    THEN LET p == CHOOSE x \in papers : x.pmid = pmid
         IN [papers |-> papers, next_id |-> next_id + 1, paper_id |-> p.paper_id]
    ELSE [papers |-> papers \cup
                     {[paper_id |-> next_id, pmid |-> pmid,
                       times_used |-> times_used_default, last_accessed |-> now]},
          next_id |-> next_id + 1,
          paper_id |-> next_id]

\* INSERT ... ON CONFLICT (pmid) DO UPDATE ... RETURNING paper_id; the
\* sequence is advanced whether or not the row is new
save_paper_row(papers, next_id, pmid) ==
    IF \E p \in papers : p.pmid = pmid
    THEN LET p == CHOOSE x \in papers : x.pmid = pmid
         IN [papers |-> (papers \ {p}) \cup
                        {[p EXCEPT !.times_used = @ + 1, !.last_accessed = now]},
             next_id |-> next_id + 1,
             paper_id |-> p.paper_id]
    ELSE [papers |-> papers \cup
                     {[paper_id |-> next_id, pmid |-> pmid,
                       times_used |-> times_used_default, last_accessed |-> now]},
          next_id |-> next_id + 1,
          paper_id |-> next_id]

RECURSIVE save_papers(_, _, _)
\* save_paper for each pmid in turn; ids collects the returned paper_ids
save_papers(papers, next_id, pmids) ==
    IF pmids = <<>> THEN [papers |-> papers, next_id |-> next_id, ids |-> <<>>]
    ELSE LET one == save_paper_row(papers, next_id, pmids[1])
             rest == save_papers(one.papers, one.next_id, Tail(pmids))
         IN [papers |-> rest.papers, next_id |-> rest.next_id,
             ids |-> <<one.paper_id>> \o rest.ids]

UsageRoom(pmids) ==
    \A p \in research_papers :
        (\E i \in 1..Len(pmids) : pmids[i] = p.pmid) => p.times_used < MaxUsed

call_save_paper(c, pmid) ==
    /\ pc[c] = "idle"
    /\ UsageRoom(<<pmid>>)
    /\ frame' = [frame EXCEPT ![c] = [NoFrame EXCEPT !.op = "save_paper",
                                                      !.papers = <<pmid>>]]
    /\ pc' = [pc EXCEPT ![c] = "save_paper"]
    /\ ret' = [ret EXCEPT ![c] = None]
    /\ UNCHANGED <<tables, now, conn>>

\* the INSERT ... ON CONFLICT, the commit and the return of paper_id
save_paper(c) ==
    /\ pc[c] = "save_paper"
    /\ IF conn[c] = "aborted"
       THEN /\ Raise(c)
            /\ UNCHANGED <<tables, now, conn>>
       ELSE LET saved == save_paper_row(research_papers, sequences.paper_id,
                                        frame[c].papers[1])
            IN /\ research_papers' = saved.papers
               /\ sequences' = [sequences EXCEPT !.paper_id = saved.next_id]
               /\ Return(c, [paper_id |-> saved.paper_id, pmid |-> frame[c].papers[1]],
                         "none")
               /\ UNCHANGED <<user_queries, cached_responses, response_citations,
                              now, conn>>

call_batch_insert_papers(c) ==
    /\ pc[c] = "idle"
    /\ UsageRoom(Pmids)
    /\ frame' = [frame EXCEPT ![c] = [NoFrame EXCEPT !.op = "batch_insert_papers",
                                                      !.papers = Pmids]]
    /\ pc' = [pc EXCEPT ![c] = "batch_insert_papers"]
    /\ ret' = [ret EXCEPT ![c] = None]
    /\ UNCHANGED <<tables, now, conn>>

batch_insert_papers(c) ==
    /\ pc[c] = "batch_insert_papers"
    /\ IF conn[c] = "aborted"
       THEN /\ Raise(c)
            /\ UNCHANGED <<tables, now, conn>>
       ELSE LET saved == save_papers(research_papers, sequences.paper_id, frame[c].papers)
            IN /\ research_papers' = saved.papers
               /\ sequences' = [sequences EXCEPT !.paper_id = saved.next_id]
               /\ Return(c, [paper_ids |-> saved.ids], "none")
               /\ UNCHANGED <<user_queries, cached_responses, response_citations,
                              now, conn>>

(***************************************************************************)
(* CacheManager.store_in_cache                                             *)
(***************************************************************************)
cited_prefix(papers_used) == SubSeq(papers_used, 1, Min(MaxCitations, Len(papers_used)))

\* response_citations.paper_id references research_papers
papers_exist(papers_used) ==
    \A i \in 1..Len(cited_prefix(papers_used)) :
        \E p \in research_papers : p.paper_id = cited_prefix(papers_used)[i]

store_succeeds(c, papers_used) == conn[c] = "ok" /\ papers_exist(papers_used)

\* enumerate() left to count from 0
citation_rows_zero_based(response_id, papers_used) ==
    {[response_id |-> response_id, paper_id |-> cited_prefix(papers_used)[i],
      citation_order |-> i - 1, relevance_rank |-> i - 1] :
        i \in 1..Len(cited_prefix(papers_used))}

\* for order, paper_id in enumerate(papers_used[:5], 1): INSERT ...
citation_rows(response_id, papers_used) ==
    {[response_id |-> response_id, paper_id |-> cited_prefix(papers_used)[i],
      citation_order |-> i, relevance_rank |-> i] :
        i \in 1..Len(cited_prefix(papers_used))}

\* the three INSERTs and the commit
store_rows(query, response, papers_used) ==
    LET query_id == sequences.query_id
        response_id == sequences.response_id
    IN /\ user_queries' = user_queries \cup
              {[query_id |-> query_id, query_text |-> query,
                normalized_text |-> normalized_with_synonyms(query),
                query_hash |-> query_hash_of(query), cache_hit |-> FALSE]}
       /\ cached_responses' = cached_responses \cup
              {[response_id |-> response_id, query_id |-> query_id,
                response_text |-> response,
                times_served |-> times_served_default, last_served |-> now]}
       /\ response_citations' = response_citations \cup
              citation_rows(response_id, papers_used)
       /\ sequences' = [sequences EXCEPT !.query_id = @ + 1, !.response_id = @ + 1]
       /\ UNCHANGED <<research_papers, conn>>

\* a statement fails: nothing is committed, the transaction stays aborted
\* (no caller rolls back); the sequence values already drawn are lost
store_fails(c) ==
    /\ conn' = [conn EXCEPT ![c] = "aborted"]
    /\ sequences' = IF conn[c] = "aborted" THEN sequences
                    ELSE [sequences EXCEPT !.query_id = @ + 1, !.response_id = @ + 1]
    /\ UNCHANGED <<user_queries, cached_responses, response_citations, research_papers>>

call_store_in_cache(c, query, response, papers_used) ==
    /\ pc[c] = "idle"
    /\ HasRoom
    /\ frame' = [frame EXCEPT ![c] = [NoFrame EXCEPT !.op = "store_in_cache",
                     !.query = query, !.response = response, !.papers = papers_used]]
    /\ pc' = [pc EXCEPT ![c] = "store_in_cache"]
    /\ ret' = [ret EXCEPT ![c] = None]
    /\ UNCHANGED <<tables, now, conn>>

store_in_cache(c) ==
    /\ pc[c] = "store_in_cache"
    /\ IF store_succeeds(c, frame[c].papers)
       THEN /\ store_rows(frame[c].query, frame[c].response, frame[c].papers)
            /\ Return(c, [response_id |-> sequences.response_id], "none")
       ELSE /\ store_fails(c)
            /\ Raise(c)
    /\ UNCHANGED now

(***************************************************************************)
(* CacheManager.smart_cache_lookup                                         *)
(***************************************************************************)
\* the row a SELECT of the lookup returns for a joined entry
result_row(e, score) ==
    [response_id |-> e[2].response_id, response_text |-> e[2].response_text,
     similarity |-> score]

\* the exact SELECT without its WHERE clause
exact_matches_any(query) == CacheEntries

\* Step 2: WHERE uq.query_hash = %s
exact_matches(query) == {e \in CacheEntries : e[1].query_hash = query_hash_of(query)}

score_of(e, query) == SimilarityOf[e[1].normalized_text, normalized_with_synonyms(query)]

\* the comparison written >=
passes_threshold_inclusive(score, threshold) == ~Greater(threshold, score)

\* similarity(...) > %s
passes_threshold(score, threshold) == Greater(score, threshold)

\* Step 3: WHERE similarity(uq.normalized_text, %s) > %s
fuzzy_candidates(query, threshold) ==
    {e \in CacheEntries : /\ e[1].normalized_text # NullText
                          /\ passes_threshold(score_of(e, query), threshold)}

\* the fuzzy SELECT without its ORDER BY
fuzzy_first_any(query, threshold) == fuzzy_candidates(query, threshold)

\* ORDER BY similarity DESC LIMIT 1: some row no other row outscores
fuzzy_first(query, threshold) ==
    {e \in fuzzy_candidates(query, threshold) :
        \A o \in fuzzy_candidates(query, threshold) :
            ~Greater(score_of(o, query), score_of(e, query))}

\* what the caller of smart_cache_lookup does with its result
lookup_returns(c, value, via) ==
    IF frame[c].op = "smart_cache_lookup"
    THEN Return(c, value, via)
    ELSE IF value # None
         THEN Return(c, [response |-> value.response_text, cached |-> TRUE,
                         error |-> FALSE, similarity |-> value.similarity], via)
         ELSE /\ pc' = [pc EXCEPT ![c] = IF frame[c].op = "integration_query"
                                          THEN "integration_generate"
                                          ELSE "generate"]
              /\ UNCHANGED <<frame, ret>>

\* at most MaxServed serves on top of the count a response was created with
\* or was found with when the process started
ServedRoom ==
    \A r \in cached_responses :
        \E base \in {times_served_default, usage_floor - 1, usage_floor} :
            r.times_served >= base /\ r.times_served < base + MaxServed

call_smart_cache_lookup(c, query, threshold) ==
    /\ pc[c] = "idle"
    /\ ServedRoom
    /\ frame' = [frame EXCEPT ![c] = [NoFrame EXCEPT !.op = "smart_cache_lookup",
                                         !.query = query, !.threshold = threshold]]
    /\ pc' = [pc EXCEPT ![c] = "lookup_exact"]
    /\ ret' = [ret EXCEPT ![c] = None]
    /\ UNCHANGED <<tables, now, conn>>

\* the exact step with the usage UPDATE of the fuzzy branch added to it
lookup_exact_counting(c) ==
    /\ pc[c] = "lookup_exact"
    /\ UNCHANGED <<user_queries, response_citations, research_papers, sequences,
                   now, conn>>
    /\ IF conn[c] = "aborted"
       THEN Raise(c) /\ UNCHANGED cached_responses
       ELSE IF exact_matches(frame[c].query) # {}
            THEN \E e \in exact_matches(frame[c].query) :
                     /\ cached_responses' =
                            {IF r.response_id = e[2].response_id
                             THEN [r EXCEPT !.times_served = @ + 1, !.last_served = now]
                             ELSE r : r \in cached_responses}
                     /\ lookup_returns(c, result_row(e, <<1, 1>>), "exact")
            ELSE /\ pc' = [pc EXCEPT ![c] = "lookup_fuzzy"]
                 /\ UNCHANGED <<frame, ret, cached_responses>>

\* the exact SELECT and its fetchone()
lookup_exact(c) ==
    /\ pc[c] = "lookup_exact"
    /\ UNCHANGED <<tables, now, conn>>
    /\ IF conn[c] = "aborted"
       THEN Raise(c)
       ELSE IF exact_matches(frame[c].query) # {}
            THEN \E e \in exact_matches(frame[c].query) :
                     lookup_returns(c, result_row(e, <<1, 1>>), "exact")
            ELSE /\ pc' = [pc EXCEPT ![c] = "lookup_fuzzy"]
                 /\ UNCHANGED <<frame, ret>>

\* the fuzzy SELECT and its fetchone()
lookup_fuzzy(c) ==
    /\ pc[c] = "lookup_fuzzy"
    /\ UNCHANGED <<tables, now, conn>>
    /\ IF fuzzy_first(frame[c].query, frame[c].threshold) # {}
       THEN \E e \in fuzzy_first(frame[c].query, frame[c].threshold) :
                /\ frame' = [frame EXCEPT ![c].match =
                                result_row(e, score_of(e, frame[c].query))]
                /\ pc' = [pc EXCEPT ![c] = "lookup_update"]
                /\ UNCHANGED ret
       ELSE lookup_returns(c, None, "miss")

\* the UPDATE writing last_served only
lookup_update_last_served_only(c) ==
    /\ pc[c] = "lookup_update"
    /\ cached_responses' =
           {IF r.response_id = frame[c].match.response_id
            THEN [r EXCEPT !.last_served = now]
            ELSE r : r \in cached_responses}
    /\ lookup_returns(c, frame[c].match, "fuzzy")
    /\ UNCHANGED <<user_queries, response_citations, research_papers, sequences,
                   now, conn>>

\* the UPDATE of the usage statistics, the commit and the return
lookup_update(c) ==
    /\ pc[c] = "lookup_update"
    /\ cached_responses' =
           {IF r.response_id = frame[c].match.response_id
            THEN [r EXCEPT !.times_served = @ + 1, !.last_served = now]
            ELSE r : r \in cached_responses}
    /\ lookup_returns(c, frame[c].match, "fuzzy")
    /\ UNCHANGED <<user_queries, response_citations, research_papers, sequences,
                   now, conn>>

(***************************************************************************)
(* FitFactPipeline.process_query (interface/app.py)                        *)
(***************************************************************************)
WordCountOf == [q \in Queries |-> Len(split(q))]
word_count(query) == WordCountOf[query]

\* self.db and self.cache are set: __init__ connected

call_process_query(c, query) ==
    /\ pc[c] = "idle"
    /\ HasRoom
    /\ ServedRoom
    /\ frame' = [frame EXCEPT ![c] = [NoFrame EXCEPT !.op = "process_query",
                                 !.query = query, !.threshold = default_threshold]]
    /\ pc' = [pc EXCEPT ![c] = IF word_count(query) >= MinCacheWords
                               THEN "lookup_exact" ELSE "generate"]
    /\ ret' = [ret EXCEPT ![c] = None]
    /\ UNCHANGED <<tables, now, conn>>

error_answer == [response |-> "error", cached |-> FALSE, error |-> TRUE]

\* paper search and response generation, both outside the repository
generate(c) ==
    /\ pc[c] = "generate"
    /\ UNCHANGED <<tables, now, conn>>
    /\ \E papers \in FetchedPapers, success \in BOOLEAN, text \in Responses :
           IF papers = <<>> \/ ~success
           THEN Return(c, error_answer, "miss")
           ELSE /\ frame' = [frame EXCEPT ![c].response = text, ![c].papers = papers]
                /\ pc' = [pc EXCEPT ![c] = "store_papers"]
                /\ UNCHANGED ret

fresh_answer(c) == [response |-> frame[c].response, cached |-> FALSE, error |-> FALSE]

\* _store_papers: save_paper per paper, each failure caught and skipped
store_papers(c) ==
    /\ pc[c] = "store_papers"
    /\ UNCHANGED <<user_queries, cached_responses, response_citations, now, conn>>
    /\ IF conn[c] = "aborted"
       THEN /\ Return(c, fresh_answer(c), "miss")
            /\ UNCHANGED <<research_papers, sequences>>
       ELSE LET saved == save_papers(research_papers, sequences.paper_id, frame[c].papers)
            IN /\ research_papers' = saved.papers
               /\ sequences' = [sequences EXCEPT !.paper_id = saved.next_id]
               /\ frame' = [frame EXCEPT ![c].papers = saved.ids]
               /\ pc' = [pc EXCEPT ![c] = "store_response"]
               /\ UNCHANGED ret

\* store_in_cache inside try/except, then the answer is returned
store_response(c) ==
    /\ pc[c] = "store_response"
    /\ IF store_succeeds(c, frame[c].papers)
       THEN store_rows(frame[c].query, frame[c].response, frame[c].papers)
       ELSE store_fails(c)
    /\ Return(c, fresh_answer(c), "miss")
    /\ UNCHANGED now

(***************************************************************************)
(* normalize_query on its own: each caller normalizes one raw query, as    *)
(* the __main__ block of cache_manager.py does for its test queries        *)
(***************************************************************************)
MaxWords == 2

w_gym == <<"g", "y", "m">>
w_run == <<"r", "u", "n">>
w_of == <<"o", "f">>
Vocabulary == {w_gym, w_run, w_of}

TokenLists == UNION {[1..n -> Vocabulary] : n \in 0..MaxWords}

\* the same words written plainly, in capitals with an exclamation mark, or
\* with commas, padding blanks and a question mark
Styles == {"plain", "shout", "ask"}

RECURSIVE Written(_, _)
Written(words, style) ==
    IF words = <<>> THEN (IF style = "shout" THEN <<"!">> ELSE <<>>)
    ELSE CASE style = "plain" ->
                  IF Len(words) = 1 THEN words[1]
                  ELSE words[1] \o <<Space>> \o Written(Tail(words), style)
           [] style = "shout" ->
                  upper(words[1]) \o <<Space>> \o Written(Tail(words), style)
           [] style = "ask" ->
                  <<Space>> \o words[1] \o <<",", Space, Space>>
                      \o Written(Tail(words), style) \o <<"?">>

RawQueries == {Written(ws, style) : ws \in TokenLists, style \in Styles}

InitNormalize ==
    /\ user_queries = {}
    /\ cached_responses = {}
    /\ response_citations = {}
    /\ research_papers = {}
    /\ sequences = [query_id |-> 1, response_id |-> 1, paper_id |-> 1]
    /\ now = 0
    /\ conn = [c \in Callers |-> "ok"]
    /\ pc = [c \in Callers |-> "normalize_query"]
    /\ frame \in [Callers -> {[NoFrame EXCEPT !.op = "normalize_query", !.query = q] :
                                  q \in RawQueries}]
    /\ ret = [c \in Callers |-> None]

normalize(c) ==
    /\ pc[c] = "normalize_query"
    /\ Return(c, [text |-> normalize_query(frame[c].query)], "none")
    /\ UNCHANGED <<tables, now, conn>>

NextNormalize == \E c \in Callers : normalize(c)

SpecNormalize == InitNormalize /\ [][NextNormalize]_vars

(***************************************************************************)
(* One process using the cache manager directly, as test_cache_cycle.py    *)
(* and the __main__ blocks do                                              *)
(***************************************************************************)
Direct == "c1"

Next ==
    \/ Tick
    \/ call_batch_insert_papers(Direct)
    \/ batch_insert_papers(Direct)
    \/ \E q \in StoreQueries, r \in Responses, ids \in PaperIdLists :
           call_store_in_cache(Direct, q, r, ids)
    \/ store_in_cache(Direct)
    \/ \E q \in LookupQueries, t \in Thresholds : call_smart_cache_lookup(Direct, q, t)
    \/ lookup_exact(Direct)
    \/ lookup_fuzzy(Direct)
    \/ lookup_update(Direct)

Spec == Init /\ [][Next]_vars

(***************************************************************************)
(* Concurrent sessions of the Streamlit application                        *)
(***************************************************************************)
NextPipeline ==
    \/ \E c \in Callers, q \in PipelineQueries : call_process_query(c, q)
    \/ \E c \in Callers : lookup_exact(c)
    \/ \E c \in Callers : lookup_fuzzy(c)
    \/ \E c \in Callers : lookup_update(c)
    \/ \E c \in Callers : generate(c)
    \/ \E c \in Callers : store_papers(c)
    \/ \E c \in Callers : store_response(c)

SpecPipeline == Init /\ [][NextPipeline]_vars

(***************************************************************************)
(* AutoCacheManager.evict_stale_cache (auto_cache_manager.py)              *)
(***************************************************************************)
\* WHERE last_served < cutoff AND times_served < 5
\* the same condition with the usage floor one lower
is_stale_lower_floor(r, cutoff) ==
    r.last_served < cutoff /\ r.times_served < usage_floor - 1
is_stale(r, cutoff) == r.last_served < cutoff /\ r.times_served < usage_floor
stale_responses(cutoff) == {r \in cached_responses : is_stale(r, cutoff)}

\* the citations staying when responses are deleted
cascade_citations_none(citations, deleted) == citations
\* the citations left once the responses in deleted are gone
cascade_citations(citations, deleted) ==
    {x \in citations : x.response_id \notin deleted}

\* the DELETE of the papers without its NOT IN clause
unused_papers_cited_or_not(papers, citations, cutoff) ==
    {p \in papers : /\ p.last_accessed < cutoff
                    /\ p.times_used < paper_usage_floor}
\* WHERE last_accessed < cutoff AND times_used < 10 AND paper_id NOT IN
\* (SELECT DISTINCT paper_id FROM response_citations)
unused_papers(papers, citations, cutoff) ==
    {p \in papers : /\ p.last_accessed < cutoff
                    /\ p.times_used < paper_usage_floor
                    /\ p.paper_id \notin {x.paper_id : x \in citations}}

\* cutoff_date = datetime.now() - timedelta(days=days_old)
call_evict_stale_cache(c, days_old) ==
    /\ pc[c] = "idle"
    /\ frame' = [frame EXCEPT ![c] = [NoFrame EXCEPT !.op = "evict_stale_cache",
                                         !.cutoff = now - days_old]]
    /\ pc' = [pc EXCEPT ![c] = "evict_select"]
    /\ ret' = [ret EXCEPT ![c] = None]
    /\ UNCHANGED <<tables, now, conn>>

\* the SELECT of the stale responses and its fetchall()
evict_select(c) ==
    /\ pc[c] = "evict_select"
    /\ UNCHANGED <<tables, now, conn>>
    /\ IF conn[c] = "aborted"
       THEN Raise(c)
       ELSE /\ frame' = [frame EXCEPT ![c].stale =
                            {r.response_id : r \in stale_responses(frame[c].cutoff)}]
            /\ pc' = [pc EXCEPT ![c] = "evict_delete"]
            /\ UNCHANGED ret

\* the two DELETEs, the commit and the return.  Other connections see
\* nothing of the transaction before its commit, and a statement of theirs
\* that touches a row it deletes waits for that commit, so the deletions
\* take effect in one step.  failed says whether the DELETE of the stale
\* responses raises (a row of user_feedback still refers to one of them,
\* the connection drops): nothing in evict_stale_cache catches it.
evict_delete(c) ==
    /\ pc[c] = "evict_delete"
    /\ UNCHANGED <<user_queries, sequences, now>>
    /\ \E failed \in BOOLEAN :
         IF failed /\ frame[c].stale # {}
         THEN /\ Raise(c)
              /\ conn' = [conn EXCEPT ![c] = "aborted"]
              /\ UNCHANGED <<cached_responses, response_citations, research_papers>>
         ELSE LET citations == cascade_citations(response_citations, frame[c].stale)
                  deleted_papers == unused_papers(research_papers, citations,
                                                  frame[c].cutoff)
              IN /\ cached_responses' =
                        {r \in cached_responses : r.response_id \notin frame[c].stale}
                 /\ response_citations' = citations
                 /\ research_papers' = research_papers \ deleted_papers
                 /\ UNCHANGED conn
                 /\ Return(c, [evicted_responses |-> Cardinality(frame[c].stale),
                               evicted_papers |-> Cardinality(deleted_papers)],
                           "sweep")

(***************************************************************************)
(* A database that has been in use: the sweep and concurrent lookups       *)
(***************************************************************************)
SeedQueries == <<q_gym_run, q_gym>>
MaxSeeds == Len(SeedQueries)
\* times_served, and days since last_served, of the responses already there
SeedServed == {usage_floor - 1, usage_floor}
SeedAges == {0, default_days_old, 1000}
\* times_used of the papers already there
SeedUsed == {paper_usage_floor - 1, paper_usage_floor}
SeedPaperAges == {0, 1000}
SweepLookups == {q_gym_gym_run, q_gym}
SweepAges == {default_days_old}

\* response k answers SeedQueries[k] and cites paper 1, which is old and
\* little used; paper 2 is cited by nothing
seed_user_queries(n) ==
    {[query_id |-> k, query_text |-> SeedQueries[k],
      normalized_text |-> normalized_with_synonyms(SeedQueries[k]),
      query_hash |-> query_hash_of(SeedQueries[k]), cache_hit |-> FALSE] : k \in 1..n}
seed_cached_responses(n, profile) ==
    {[response_id |-> k, query_id |-> k, response_text |-> "r1",
      times_served |-> profile[k][1], last_served |-> 0 - profile[k][2]] : k \in 1..n}
seed_response_citations(n) ==
    {[response_id |-> k, paper_id |-> 1, citation_order |-> 1,
      relevance_rank |-> 1] : k \in 1..n}
seed_research_papers(used, age) ==
    {[paper_id |-> 1, pmid |-> Pmids[1], times_used |-> paper_usage_floor - 1,
      last_accessed |-> 0 - 1000],
     [paper_id |-> 2, pmid |-> Pmids[2], times_used |-> used,
      last_accessed |-> 0 - age]}

InitSweep ==
    /\ \E n \in 0..MaxSeeds :
         /\ \E profile \in [1..n -> SeedServed \X SeedAges] :
                cached_responses = seed_cached_responses(n, profile)
         /\ user_queries = seed_user_queries(n)
         /\ response_citations = seed_response_citations(n)
         /\ sequences = [query_id |-> n + 1, response_id |-> n + 1, paper_id |-> 3]
    /\ \E used \in SeedUsed, age \in SeedPaperAges :
           research_papers = seed_research_papers(used, age)
    /\ now = 0
    /\ conn = [c \in Callers |-> "ok"]
    /\ pc = [c \in Callers |-> "idle"]
    /\ frame = [c \in Callers |-> NoFrame]
    /\ ret = [c \in Callers |-> None]

NextSweep ==
    \/ Tick
    \/ \E days_old \in SweepAges : call_evict_stale_cache(Direct, days_old)
    \/ evict_select(Direct)
    \/ evict_delete(Direct)
    \/ \E c \in Callers :
         \/ \E q \in SweepLookups : call_smart_cache_lookup(c, q, default_threshold)
         \/ lookup_exact(c)
         \/ lookup_fuzzy(c)
         \/ lookup_update(c)

SpecSweep == InitSweep /\ [][NextSweep]_vars

(***************************************************************************)
(* AutoCacheManager.check_auto_cache_eligibility and trigger_auto_cache    *)
(***************************************************************************)
CitedPaperIds == {x.paper_id : x \in response_citations}

\* the WHERE clause with > in the place of >=
eligible_papers_above ==
    {p \in research_papers : /\ p.times_used > promotion_threshold
                             /\ p.paper_id \notin CitedPaperIds}
\* WHERE times_used >= 20 AND paper_id NOT IN (SELECT DISTINCT paper_id
\* FROM response_citations)
eligible_papers ==
    {p \in research_papers : /\ p.times_used >= promotion_threshold
                             /\ p.paper_id \notin CitedPaperIds}

\* ORDER BY times_used DESC LIMIT 10: the results the statement can give,
\* rows of equal times_used coming in any order
promotion_candidates ==
    {S \in SUBSET eligible_papers :
        /\ Cardinality(S) = Min(promotion_limit, Cardinality(eligible_papers))
        /\ \A p \in S, q \in eligible_papers \ S : p.times_used >= q.times_used}

call_check_auto_cache_eligibility(c) ==
    /\ pc[c] = "idle"
    /\ frame' = [frame EXCEPT ![c] =
                    [NoFrame EXCEPT !.op = "check_auto_cache_eligibility"]]
    /\ pc' = [pc EXCEPT ![c] = "check_auto_cache_eligibility"]
    /\ ret' = [ret EXCEPT ![c] = None]
    /\ UNCHANGED <<tables, now, conn>>

check_auto_cache_eligibility(c) ==
    /\ pc[c] = "check_auto_cache_eligibility"
    /\ UNCHANGED <<tables, now, conn>>
    /\ IF conn[c] = "aborted"
       THEN Raise(c)
       ELSE \E S \in promotion_candidates :
                Return(c, [candidates |-> {p.paper_id : p \in S}], "none")

auto_response(pmid) == "auto " \o pmid

call_trigger_auto_cache(c, paper_id) ==
    /\ pc[c] = "idle"
    /\ HasRoom
    /\ frame' = [frame EXCEPT ![c] = [NoFrame EXCEPT !.op = "trigger_auto_cache",
                                                      !.papers = <<paper_id>>]]
    /\ pc' = [pc EXCEPT ![c] = "promote_select"]
    /\ ret' = [ret EXCEPT ![c] = None]
    /\ UNCHANGED <<tables, now, conn>>

\* SELECT title, abstract, pmid ... WHERE paper_id = %s, and the texts made
\* from the row
promote_select(c) ==
    /\ pc[c] = "promote_select"
    /\ UNCHANGED <<tables, now, conn>>
    /\ IF conn[c] = "aborted"
       THEN Raise(c)
       ELSE IF \E p \in research_papers : p.paper_id = frame[c].papers[1]
            THEN LET paper == CHOOSE p \in research_papers :
                                  p.paper_id = frame[c].papers[1]
                 IN /\ frame' = [frame EXCEPT
                                    ![c].query = auto_query(TitleOf(paper.pmid)),
                                    ![c].response = auto_response(paper.pmid)]
                    /\ pc' = [pc EXCEPT ![c] = "promote_store"]
                    /\ UNCHANGED ret
            ELSE Return(c, [cached |-> FALSE], "none")

\* the store of a promotion without its citation
promote_store_uncited(c) ==
    /\ pc[c] = "promote_store"
    /\ IF store_succeeds(c, frame[c].papers)
       THEN /\ store_rows(frame[c].query, frame[c].response, <<>>)
            /\ Return(c, [cached |-> TRUE], "none")
       ELSE /\ store_fails(c)
            /\ Raise(c)
    /\ UNCHANGED now

\* self.cache.store_in_cache(auto_query, auto_response, [paper_id])
promote_store(c) ==
    /\ pc[c] = "promote_store"
    /\ IF store_succeeds(c, frame[c].papers)
       THEN /\ store_rows(frame[c].query, frame[c].response, frame[c].papers)
            /\ Return(c, [cached |-> TRUE], "none")
       ELSE /\ store_fails(c)
            /\ Raise(c)
    /\ UNCHANGED now

(***************************************************************************)
(* A database that has been in use: store, promotion and sweep in turn     *)
(***************************************************************************)
MaxPapers == 12
pmid_of(k) == "p" \o ToString(k)
\* paper k has been used SeedUsedBases + (k % 3) times
SeedUsedBases == {paper_usage_floor - 2, promotion_threshold - 2,
                  promotion_threshold - 1, promotion_threshold}
seed_library(n, base) ==
    {[paper_id |-> k, pmid |-> pmid_of(k), times_used |-> base + (k % 3),
      last_accessed |-> 0 - 1000] : k \in 1..n}
\* ids trigger_auto_cache is called with, and papers_used lists of stores
PromotedIds == {1, 2}
MaintenancePaperLists == PaperIdLists \cup {<<1>>}
\* how many papers there are: none, those of PromotedIds, those of
\* PaperIdLists, a full page of check_auto_cache_eligibility, and more
SeedPaperCounts == {0, Cardinality(PromotedIds), Len(Pmids), promotion_limit, MaxPapers}

InitMaintenance ==
    /\ \E n \in SeedPaperCounts :
         /\ \E base \in SeedUsedBases : research_papers = seed_library(n, base)
         /\ \E m \in 0..Min(n, 1) :
              /\ cached_responses =
                     seed_cached_responses(m, [k \in 1..m |-> <<usage_floor - 1, 1000>>])
              /\ user_queries = seed_user_queries(m)
              /\ response_citations = seed_response_citations(m)
              /\ sequences = [query_id |-> m + 1, response_id |-> m + 1,
                              paper_id |-> n + 1]
    /\ now = 0
    /\ conn = [c \in Callers |-> "ok"]
    /\ pc = [c \in Callers |-> "idle"]
    /\ frame = [c \in Callers |-> NoFrame]
    /\ ret = [c \in Callers |-> None]

NextMaintenance ==
    \/ Tick
    \/ \E papers_used \in MaintenancePaperLists :
           call_store_in_cache(Direct, q_gym, "r1", papers_used)
    \/ store_in_cache(Direct)
    \/ call_check_auto_cache_eligibility(Direct)
    \/ check_auto_cache_eligibility(Direct)
    \/ \E paper_id \in PromotedIds : call_trigger_auto_cache(Direct, paper_id)
    \/ promote_select(Direct)
    \/ promote_store(Direct)
    \/ \E days_old \in SweepAges : call_evict_stale_cache(Direct, days_old)
    \/ evict_select(Direct)
    \/ evict_delete(Direct)

SpecMaintenance == InitMaintenance /\ [][NextMaintenance]_vars

(***************************************************************************)
(* The pipeline while the database can fail                                *)
(***************************************************************************)
\* a statement on caller c's connection fails (the server is unreachable,
\* the connection drops): psycopg2 raises, and raises again on every later
\* execute, since nothing reconnects or rolls back
storage_fails(c) ==
    /\ conn[c] = "ok"
    /\ conn' = [conn EXCEPT ![c] = "aborted"]
    /\ UNCHANGED <<tables, now, pc, frame, ret>>

NextOutage ==
    \/ \E c \in Callers, q \in PipelineQueries : call_process_query(c, q)
    \/ \E c \in Callers : lookup_exact(c)
    \/ \E c \in Callers : lookup_fuzzy(c)
    \/ \E c \in Callers : lookup_update(c)
    \/ \E c \in Callers : generate(c)
    \/ \E c \in Callers : store_papers(c)
    \/ \E c \in Callers : store_response(c)
    \/ \E c \in Callers : storage_fails(c)

SpecOutage == Init /\ [][NextOutage]_vars

(***************************************************************************)
(* Stores and lookups of queries that normalize to nothing                 *)
(***************************************************************************)
DegenerateStores == DegenerateQueries \cup {q_gym_run}
DegenerateLookups == DegenerateQueries \cup {q_gym_gym_run}

NextDegenerate ==
    \/ Tick
    \/ \E q \in DegenerateStores, r \in Responses :
           call_store_in_cache(Direct, q, r, <<>>)
    \/ store_in_cache(Direct)
    \/ \E q \in DegenerateLookups, t \in Thresholds :
           call_smart_cache_lookup(Direct, q, t)
    \/ lookup_exact(Direct)
    \/ lookup_fuzzy(Direct)
    \/ lookup_update(Direct)

SpecDegenerate == Init /\ [][NextDegenerate]_vars

(***************************************************************************)
(* save_paper called again and again (test_database.py)                    *)
(***************************************************************************)
SavedPmids == {"p1", "p2"}

NextPapers ==
    \/ Tick
    \/ \E c \in Callers, pmid \in SavedPmids : call_save_paper(c, pmid)
    \/ \E c \in Callers : save_paper(c)

SpecPapers == Init /\ [][NextPapers]_vars

(***************************************************************************)
(* FitFactIntegration.process_query (end_to_end_test.py)                   *)
(***************************************************************************)
\* the cache is consulted for every query, with threshold=0.7
call_integration_query(c, query) ==
    /\ pc[c] = "idle"
    /\ HasRoom
    /\ ServedRoom
    /\ frame' = [frame EXCEPT ![c] = [NoFrame EXCEPT !.op = "integration_query",
                                 !.query = query, !.threshold = default_threshold]]
    /\ pc' = [pc EXCEPT ![c] = "lookup_exact"]
    /\ ret' = [ret EXCEPT ![c] = None]
    /\ UNCHANGED <<tables, now, conn>>

IntegrationPapers == {<<"p2", "p1">>, <<"p3">>}

\* _fetch_papers_simulation and claude.generate_response, then the return
\* when success is false
integration_generate(c) ==
    /\ pc[c] = "integration_generate"
    /\ UNCHANGED <<tables, now, conn>>
    /\ \E papers \in IntegrationPapers, success \in BOOLEAN, text \in Responses :
           IF ~success
           THEN Return(c, error_answer, "miss")
           ELSE /\ frame' = [frame EXCEPT ![c].response = text, ![c].papers = papers]
                /\ pc' = [pc EXCEPT ![c] = "integration_store_papers"]
                /\ UNCHANGED ret

\* _store_papers_in_db: save_paper per paper, a failing one skipped
integration_store_papers(c) ==
    /\ pc[c] = "integration_store_papers"
    /\ UNCHANGED <<user_queries, cached_responses, response_citations, now, conn, ret>>
    /\ pc' = [pc EXCEPT ![c] = "integration_store"]
    /\ IF conn[c] = "aborted"
       THEN /\ frame' = [frame EXCEPT ![c].papers = <<>>]
            /\ UNCHANGED <<research_papers, sequences>>
       ELSE LET saved == save_papers(research_papers, sequences.paper_id, frame[c].papers)
            IN /\ research_papers' = saved.papers
               /\ sequences' = [sequences EXCEPT !.paper_id = saved.next_id]
               /\ frame' = [frame EXCEPT ![c].papers = saved.ids]

\* the return of the fresh answer without the store_in_cache before it
integration_store_skipped(c) ==
    /\ pc[c] = "integration_store"
    /\ Return(c, fresh_answer(c), "miss")
    /\ UNCHANGED <<tables, now, conn>>

\* store_in_cache, outside any try, then the return of the fresh answer
integration_store(c) ==
    /\ pc[c] = "integration_store"
    /\ IF store_succeeds(c, frame[c].papers)
       THEN /\ store_rows(frame[c].query, frame[c].response, frame[c].papers)
            /\ Return(c, fresh_answer(c), "miss")
       ELSE /\ store_fails(c)
            /\ Raise(c)
    /\ UNCHANGED now

NextIntegration ==
    \/ Tick
    \/ \E q \in PipelineQueries : call_integration_query(Direct, q)
    \/ lookup_exact(Direct)
    \/ lookup_fuzzy(Direct)
    \/ lookup_update(Direct)
    \/ integration_generate(Direct)
    \/ integration_store_papers(Direct)
    \/ integration_store(Direct)

SpecIntegration == Init /\ [][NextIntegration]_vars

(***************************************************************************)
(* FitFactPipeline.process_query of main.py, on FitFactDB                  *)
(***************************************************************************)
\* similarity values the SQL function find_cached_response can report
MainScores == {<<1, 2>>, default_threshold, <<1, 1>>}
\* SELECT * FROM find_cached_response(%s): no row, or a cached response with
\* its similarity to the query
find_cached_response(query) ==
    {None} \cup {result_row(e, score) : e \in CacheEntries, score \in MainScores}

\* paper_ids[:3]
MainCitations == 3
\* the text generate_response returns with success = False
generation_error_text == "Error generating response"

\* rows of user_queries beyond which no further main.py request starts
MaxLogged == 3

call_main_query(c, query) ==
    /\ pc[c] = "idle"
    /\ HasRoom
    /\ Cardinality(user_queries) < MaxLogged
    /\ frame' = [frame EXCEPT ![c] = [NoFrame EXCEPT !.op = "main_query",
                                 !.query = query, !.threshold = default_threshold]]
    /\ pc' = [pc EXCEPT ![c] = "main_check_cache"]
    /\ ret' = [ret EXCEPT ![c] = None]
    /\ UNCHANGED <<tables, now, conn>>

\* db.check_cache(user_query)
main_check_cache(c) ==
    /\ pc[c] = "main_check_cache"
    /\ UNCHANGED <<tables, now, conn>>
    /\ IF conn[c] = "aborted"
       THEN Raise(c)
       ELSE \E cached \in find_cached_response(frame[c].query) :
                /\ frame' = [frame EXCEPT ![c].match = cached]
                /\ pc' = [pc EXCEPT ![c] =
                             IF cached # None /\ Greater(cached.similarity, frame[c].threshold)
                             THEN "main_hit" ELSE "main_fetch"]
                /\ UNCHANGED ret

\* INSERT INTO user_queries (query_text, cache_hit, response_time_ms, ...)
log_query_row(query_id, query_text, cache_hit) ==
    [query_id |-> query_id, query_text |-> query_text, normalized_text |-> NullText,
     query_hash |-> NullText, cache_hit |-> cache_hit]

\* the hit branch with save_response in the place of log_query
main_hit_saving(c) ==
    /\ pc[c] = "main_hit"
    /\ user_queries' = user_queries \cup
           {log_query_row(sequences.query_id, frame[c].query, TRUE)}
    /\ cached_responses' = cached_responses \cup
           {[response_id |-> sequences.response_id, query_id |-> sequences.query_id,
             response_text |-> frame[c].match.response_text,
             times_served |-> times_served_default, last_served |-> now]}
    /\ sequences' = [sequences EXCEPT !.query_id = @ + 1, !.response_id = @ + 1]
    /\ Return(c, [response |-> frame[c].match.response_text, cached |-> TRUE,
                  error |-> FALSE], "hit")
    /\ UNCHANGED <<response_citations, research_papers, now, conn>>

\* the hit branch: log_query(cache_hit=True), return cached['response_text']
main_hit(c) ==
    /\ pc[c] = "main_hit"
    /\ user_queries' = user_queries \cup
           {log_query_row(sequences.query_id, frame[c].query, TRUE)}
    /\ sequences' = [sequences EXCEPT !.query_id = @ + 1]
    /\ Return(c, [response |-> frame[c].match.response_text, cached |-> TRUE,
                  error |-> FALSE], "hit")
    /\ UNCHANGED <<cached_responses, response_citations, research_papers, now, conn>>

sorry_answer == [response |-> "Sorry", cached |-> FALSE, error |-> TRUE]

\* the PubMed search, and save_paper for each paper found
main_fetch(c) ==
    /\ pc[c] = "main_fetch"
    /\ UNCHANGED <<user_queries, cached_responses, response_citations, now, conn>>
    /\ \E papers \in FetchedPapers :
           IF papers = <<>>
           THEN /\ Return(c, sorry_answer, "miss")
                /\ UNCHANGED <<research_papers, sequences>>
           ELSE LET saved == save_papers(research_papers, sequences.paper_id, papers)
                IN /\ research_papers' = saved.papers
                   /\ sequences' = [sequences EXCEPT !.paper_id = saved.next_id]
                   /\ frame' = [frame EXCEPT ![c].papers = saved.ids]
                   /\ pc' = [pc EXCEPT ![c] = "main_generate"]
                   /\ UNCHANGED ret

\* claude.generate_response: its text, and whether it reports success
main_generate(c) ==
    /\ pc[c] = "main_generate"
    /\ UNCHANGED <<tables, now, conn, ret>>
    /\ pc' = [pc EXCEPT ![c] = "main_store"]
    /\ \E success \in BOOLEAN, text \in Responses :
           frame' = [frame EXCEPT ![c].response =
                        IF success THEN text ELSE generation_error_text]

main_citation_rows(response_id, paper_ids) ==
    {[response_id |-> response_id, paper_id |-> paper_ids[i],
      citation_order |-> i, relevance_rank |-> i] :
        i \in 1..Min(MainCitations, Len(paper_ids))}

\* save_response (which logs the query with cache_hit True), save_citation
\* for the first three papers, log_query(cache_hit=False) and the return
main_store(c) ==
    /\ pc[c] = "main_store"
    /\ LET query_id == sequences.query_id
           response_id == sequences.response_id
       IN /\ user_queries' = user_queries \cup
                 {log_query_row(query_id, frame[c].query, TRUE),
                  log_query_row(query_id + 1, frame[c].query, FALSE)}
          /\ cached_responses' = cached_responses \cup
                 {[response_id |-> response_id, query_id |-> query_id,
                   response_text |-> frame[c].response,
                   times_served |-> times_served_default, last_served |-> now]}
          /\ response_citations' = response_citations \cup
                 main_citation_rows(response_id, frame[c].papers)
          /\ sequences' = [sequences EXCEPT !.query_id = @ + 2, !.response_id = @ + 1]
    /\ Return(c, [response |-> frame[c].response, cached |-> FALSE,
                  error |-> frame[c].response = generation_error_text], "miss")
    /\ UNCHANGED <<research_papers, now, conn>>

(***************************************************************************)
(* The three pipelines on one database                                     *)
(***************************************************************************)
MainQueries == {q_long_a, q_gym}
AppQueries == {q_long_a, q_gym}
IntegrationQueries == {q_long_c}

NextPipelines ==
    \/ \E q \in MainQueries : call_main_query(Direct, q)
    \/ main_check_cache(Direct)
    \/ main_hit(Direct)
    \/ main_fetch(Direct)
    \/ main_generate(Direct)
    \/ main_store(Direct)
    \/ \E q \in AppQueries : call_process_query(Direct, q)
    \/ generate(Direct)
    \/ store_papers(Direct)
    \/ store_response(Direct)
    \/ \E q \in IntegrationQueries : call_integration_query(Direct, q)
    \/ integration_generate(Direct)
    \/ integration_store_papers(Direct)
    \/ integration_store(Direct)
    \/ lookup_exact(Direct)
    \/ lookup_fuzzy(Direct)
    \/ lookup_update(Direct)

SpecPipelines == Init /\ [][NextPipelines]_vars

(***************************************************************************)
(* The fingerprint text of a query and apply_synonyms on their own: every  *)
(* caller holds one raw query and either computes the normalized text as   *)
(* store_in_cache and smart_cache_lookup do, or applies the synonym rules  *)
(* and then applies them again to what came back                           *)
(***************************************************************************)
s_creatine_monohydrate_dose == <<"c", "r", "e", "a", "t", "i", "n", "e", " ", "m", "o", "n", "o", "h", "y", "d", "r", "a", "t", "e", " ", "d", "o", "s", "e">>
s_monohydrate_creatine == <<"m", "o", "n", "o", "h", "y", "d", "r", "a", "t", "e", " ", "c", "r", "e", "a", "t", "i", "n", "e">>
s_Creatine_Monohydrate == <<"C", "r", "e", "a", "t", "i", "n", "e", " ", "M", "o", "n", "o", "h", "y", "d", "r", "a", "t", "e">>
s_muscle_gym == <<"m", "u", "s", "c", "l", "e", " ", "g", "y", "m">>
s_muscles_gym == <<"m", "u", "s", "c", "l", "e", "s", " ", "g", "y", "m">>
s_strength == <<"s", "t", "r", "e", "n", "g", "t", "h">>
s_strength_training == <<"s", "t", "r", "e", "n", "g", "t", "h", " ", "t", "r", "a", "i", "n", "i", "n", "g">>
s_whey == <<"w", "h", "e", "y">>
s_protein == <<"p", "r", "o", "t", "e", "i", "n">>

SynonymQueries ==
    {s_creatine_monohydrate_dose, s_monohydrate_creatine, s_Creatine_Monohydrate,
     s_muscle_gym, s_muscles_gym, s_strength, s_strength_training, s_whey,
     s_protein}

\* <<informal wording, wording that already uses the normalized term>>
CanonicalPairs ==
    {<<s_muscle_gym, s_muscles_gym>>, <<s_strength, s_strength_training>>,
     <<s_whey, s_protein>>}

phrase_creatine_monohydrate == synonym_map[2][1]
w_monohydrate == <<"m", "o", "n", "o", "h", "y", "d", "r", "a", "t", "e">>

\* old in s, as Python's `old in s`
Contains(s, old) == \E i \in 1..Len(s) : StartsWithAt(s, i, old)

InitSynonyms ==
    /\ user_queries = {}
    /\ cached_responses = {}
    /\ response_citations = {}
    /\ research_papers = {}
    /\ sequences = [query_id |-> 1, response_id |-> 1, paper_id |-> 1]
    /\ now = 0
    /\ conn = [c \in Callers |-> "ok"]
    /\ pc \in [Callers -> {"fingerprint", "apply_synonyms"}]
    /\ frame \in [Callers -> {[NoFrame EXCEPT !.op = op, !.query = q] :
                                  op \in {"fingerprint", "apply_synonyms"},
                                  q \in SynonymQueries}]
    /\ \A c \in Callers : frame[c].op = pc[c]
    /\ ret = [c \in Callers |-> None]

\* the first three statements of store_in_cache and of smart_cache_lookup
fingerprint(c) ==
    /\ pc[c] = "fingerprint"
    /\ LET normalized == normalize_query(frame[c].query)
           with_synonyms == apply_synonyms(normalized)
       IN Return(c, [text |-> with_synonyms,
                     query_hash |-> calculate_query_hash(with_synonyms)], "none")
    /\ UNCHANGED <<tables, now, conn>>

\* apply_synonyms(query) on the caller's text
synonyms(c) ==
    /\ pc[c] = "apply_synonyms"
    /\ Return(c, [text |-> apply_synonyms(frame[c].query)],
              IF frame[c].response = NULL THEN "first" ELSE "again")
    /\ UNCHANGED <<tables, now, conn>>

\* the caller hands the text it got back to apply_synonyms once more
synonyms_again(c) ==
    /\ pc[c] = "idle"
    /\ ret[c] # None
    /\ ret[c].op = "apply_synonyms"
    /\ ret[c].via = "first"
    /\ pc' = [pc EXCEPT ![c] = "apply_synonyms"]
    /\ frame' = [frame EXCEPT ![c] =
                   [NoFrame EXCEPT !.op = "apply_synonyms",
                                   !.query = ret[c].value.text,
                                   !.response = "again"]]
    /\ ret' = [ret EXCEPT ![c] = None]
    /\ UNCHANGED <<tables, now, conn>>

NextSynonyms ==
    \E c \in Callers :
        \/ fingerprint(c)
        \/ synonyms(c)
        \/ synonyms_again(c)

SpecSynonyms == InitSynonyms /\ [][NextSynonyms]_vars

(***************************************************************************)
(* The app pipeline when store_in_cache fails: the only statements that    *)
(* fail are those of a store_in_cache that process_query is about to run   *)
(***************************************************************************)
\* an INSERT of store_in_cache fails on caller c's connection
store_insert_fails(c) ==
    /\ pc[c] = "store_response"
    /\ storage_fails(c)

NextStoreFailure ==
    \/ \E c \in Callers, q \in PipelineQueries : call_process_query(c, q)
    \/ \E c \in Callers : lookup_exact(c)
    \/ \E c \in Callers : lookup_fuzzy(c)
    \/ \E c \in Callers : lookup_update(c)
    \/ \E c \in Callers : generate(c)
    \/ \E c \in Callers : store_papers(c)
    \/ \E c \in Callers : store_response(c)
    \/ \E c \in Callers : store_insert_fails(c)

SpecStoreFailure == Init /\ [][NextStoreFailure]_vars

(***************************************************************************)
(* Promotion sweeps: check_auto_cache_eligibility, then trigger_auto_cache *)
(* for a paper it returned, as the __main__ block of auto_cache_manager.py *)
(* does; direct calls of trigger_auto_cache stay possible                  *)
(***************************************************************************)
\* auto_manager.trigger_auto_cache(candidates[...]['paper_id']) on the
\* candidates that the check has just returned to caller c
call_trigger_candidate(c) ==
    /\ pc[c] = "idle"
    /\ HasRoom
    /\ ret[c] # None
    /\ ret[c].op = "check_auto_cache_eligibility"
    /\ ~ret[c].raised
    /\ \E paper_id \in ret[c].value.candidates :
           frame' = [frame EXCEPT ![c] =
                        [NoFrame EXCEPT !.op = "trigger_auto_cache",
                                        !.papers = <<paper_id>>,
                                        !.match = ret[c].value]]
    /\ pc' = [pc EXCEPT ![c] = "promote_select"]
    /\ ret' = [ret EXCEPT ![c] = None]
    /\ UNCHANGED <<tables, now, conn>>

\* how many papers there are: none, those of PromotedIds, and one more that
\* only a sweep can promote
PromotionPaperCounts == {0, Cardinality(PromotedIds), Cardinality(PromotedIds) + 1}

InitPromotion ==
    /\ \E n \in PromotionPaperCounts :
         /\ \E base \in SeedUsedBases : research_papers = seed_library(n, base)
         /\ \E m \in 0..Min(n, 1) :
              /\ cached_responses =
                     seed_cached_responses(m, [k \in 1..m |-> <<usage_floor - 1, 1000>>])
              /\ user_queries = seed_user_queries(m)
              /\ response_citations = seed_response_citations(m)
              /\ sequences = [query_id |-> m + 1, response_id |-> m + 1,
                              paper_id |-> n + 1]
    /\ now = 0
    /\ conn = [c \in Callers |-> "ok"]
    /\ pc = [c \in Callers |-> "idle"]
    /\ frame = [c \in Callers |-> NoFrame]
    /\ ret = [c \in Callers |-> None]

NextPromotion ==
    \/ NextMaintenance
    \/ call_trigger_candidate(Direct)

SpecPromotion == InitPromotion /\ [][NextPromotion]_vars

(***************************************************************************)
(* Properties                                                              *)
(***************************************************************************)
HitFields == {"response_id", "response_text", "similarity"}

Returned(c, op) == ret[c] # None /\ ret[c].op = op
LookupHit(c) == Returned(c, "smart_cache_lookup") /\ ret[c].value # None

\* the step in which caller c's direct call of op returns
Returns(c, op) == ret[c] = None /\ ret'[c] # None /\ ret'[c].op = op
\* the step in which caller c runs the exact SELECT, resp. the fuzzy SELECT
ExactStep(c) == pc[c] = "lookup_exact" /\ pc'[c] # "lookup_exact"
FuzzyStep(c) == pc[c] = "lookup_fuzzy" /\ pc'[c] # "lookup_fuzzy"

SameFingerprint(e, f) == e[1].query_hash = f[1].query_hash
OnlyEntryOfFingerprint(e) == \A f \in CacheEntries : SameFingerprint(e, f) => f = e

\* C1: after store_in_cache has returned a key for a raw query and a response
\* text, the only cached entry with that raw query and that response text is
\* the one the key names (a repeated store returns the existing key and adds
\* no row).
C1_IdempotentInsert ==
    \A c \in Callers :
        (Returned(c, "store_in_cache") /\ ~ret[c].raised) =>
            \A e \in CacheEntries, f \in CacheEntries :
                (/\ f[2].response_id = ret[c].value.response_id
                 /\ e[1].query_text = f[1].query_text
                 /\ e[2].response_text = f[2].response_text) => e = f

\* C2: whatever the interleaving of process_query calls, the queries that
\* consult the cache end up with at most one cached entry per fingerprint,
\* and no call ends with an exception.
C2_ConvergesToSingleEntry ==
    /\ \A e \in CacheEntries, f \in CacheEntries :
           (/\ SameFingerprint(e, f)
            /\ word_count(e[1].query_text) >= MinCacheWords
            /\ word_count(f[1].query_text) >= MinCacheWords) => e = f
    /\ \A c \in Callers : ret[c] # None => ~ret[c].raised

\* C3: a lookup of q' returns a hit with similarity 1.0 and the stored text
\* whenever an entry stored under a raw query with the same normalized text
\* as q' exists and is the only entry of its fingerprint.
C3_StoreLookupRoundTrip ==
    \A c \in Callers :
        Returned(c, "smart_cache_lookup") =>
            \A e \in CacheEntries :
                (/\ normalized_with_synonyms(e[1].query_text)
                        = normalized_with_synonyms(ret[c].query)
                 /\ OnlyEntryOfFingerprint(e))
                => /\ ret[c].value # None
                   /\ SameScore(ret[c].value.similarity, <<1, 1>>)
                   /\ ret[c].value.response_text = e[2].response_text

C3_Witness ==
    \E c \in Callers :
        /\ LookupHit(c)
        /\ ret[c].via = "exact"
        /\ \E e \in CacheEntries :
               /\ e[2].response_id = ret[c].value.response_id
               /\ e[1].query_text # ret[c].query
               /\ OnlyEntryOfFingerprint(e)
               /\ Cardinality(CacheEntries) > 1

CitationsOf(citations, response_id) == {x \in citations : x.response_id = response_id}

TokenCount(w, words) == Cardinality({i \in 1..Len(words) : words[i] = w})
ContentTokens(query) == remove_stop_words(split(strip_punctuation(lower(query))))
SameTokens(a, b) ==
    LET ta == ContentTokens(a)
        tb == ContentTokens(b)
    IN \A w \in {ta[i] : i \in 1..Len(ta)} \cup {tb[i] : i \in 1..Len(tb)} :
           TokenCount(w, ta) = TokenCount(w, tb)

\* C5: two raw queries with the same multiset of non-stop-word tokens get
\* the same normalized string.
C5_OrderInvariance ==
    \A c \in Callers, d \in Callers :
        (/\ Returned(c, "normalize_query")
         /\ Returned(d, "normalize_query")
         /\ SameTokens(ret[c].query, ret[d].query))
        => ret[c].value.text = ret[d].value.text

C5_Witness ==
    \E c \in Callers, d \in Callers :
        /\ Returned(c, "normalize_query")
        /\ Returned(d, "normalize_query")
        /\ SameTokens(ret[c].query, ret[d].query)
        /\ ContentTokens(ret[c].query) # ContentTokens(ret[d].query)
        /\ ret[c].value.text = ret[d].value.text

\* C6 (as claimed): the fuzzy step finds no match only if every stored entry
\* scores strictly below the threshold (a score equal to it is accepted).
C6_ThresholdInclusive ==
    [][\A c \in Callers :
          (FuzzyStep(c) /\ pc'[c] # "lookup_update") =>
              \A e \in CacheEntries :
                  Greater(frame[c].threshold, score_of(e, frame[c].query))
      ]_vars

\* C6 (amended): the fuzzy step accepts a candidate exactly when some stored
\* entry scores strictly above the threshold; a score equal to the threshold
\* or below it is rejected.
C6_ThresholdExclusive ==
    [][\A c \in Callers :
          FuzzyStep(c) =>
              /\ pc'[c] = "lookup_update" <=>
                     \E e \in CacheEntries :
                         Greater(score_of(e, frame[c].query), frame[c].threshold)
              /\ pc'[c] = "lookup_update" =>
                     Greater(frame'[c].match.similarity, frame[c].threshold)
      ]_vars

C6_Witness ==
    \E c \in Callers :
        /\ Returned(c, "smart_cache_lookup")
        /\ ret[c].via = "miss"
        /\ \E e \in CacheEntries : SameScore(score_of(e, ret[c].query), ret[c].threshold)

\* C7: the fuzzy step picks a stored entry that passes the threshold and that
\* no stored entry outscores, and picks nothing when no entry passes.
C7_FuzzyReturnsHighest ==
    [][\A c \in Callers :
          FuzzyStep(c) =>
              IF \E e \in CacheEntries :
                     Greater(score_of(e, frame[c].query), frame[c].threshold)
              THEN /\ pc'[c] = "lookup_update"
                   /\ \E e \in CacheEntries :
                          /\ frame'[c].match =
                                 result_row(e, score_of(e, frame[c].query))
                          /\ Greater(score_of(e, frame[c].query), frame[c].threshold)
                          /\ \A o \in CacheEntries :
                                 ~Greater(score_of(o, frame[c].query),
                                          score_of(e, frame[c].query))
              ELSE /\ pc'[c] # "lookup_update"
                   /\ frame[c].op = "smart_cache_lookup" => ret'[c].value = None
      ]_vars

C7_Witness ==
    \E c \in Callers :
        /\ LookupHit(c)
        /\ ret[c].via = "fuzzy"
        /\ \E e \in CacheEntries :
               /\ Greater(score_of(e, ret[c].query), ret[c].threshold)
               /\ Greater(ret[c].value.similarity, score_of(e, ret[c].query))

LastServed(response_id) ==
    (CHOOSE r \in cached_responses : r.response_id = response_id).last_served

\* C8: among the entries that share the looked-up fingerprint, and among the
\* entries that tie at the best fuzzy score, the lookup takes one that no
\* other was served more recently than.
C8_TieBreakMostRecent ==
    [][\A c \in Callers :
          /\ (ExactStep(c) /\ Returns(c, "smart_cache_lookup")
                /\ ret'[c].via = "exact") =>
                 \A e \in exact_matches(frame[c].query) :
                     e[2].last_served <= LastServed(ret'[c].value.response_id)
          /\ (FuzzyStep(c) /\ pc'[c] = "lookup_update") =>
                 \A e \in fuzzy_first(frame[c].query, frame[c].threshold) :
                     e[2].last_served <= LastServed(frame'[c].match.response_id)
      ]_vars

\* C9: the exact step changes no table; it returns a stored response whose
\* query has the looked-up fingerprint when there is one, and otherwise
\* returns nothing itself.
C9_ExactLookupReadOnly ==
    [][\A c \in Callers :
          ExactStep(c) =>
              /\ cached_responses' = cached_responses
              /\ UNCHANGED <<user_queries, response_citations, research_papers>>
              /\ IF conn[c] = "ok" /\ exact_matches(frame[c].query) # {}
                 THEN /\ Returns(c, frame[c].op)
                      /\ frame[c].op = "smart_cache_lookup" =>
                             \E e \in exact_matches(frame[c].query) :
                                 ret'[c].value = result_row(e, <<1, 1>>)
                 ELSE conn[c] = "ok" => ret'[c] = None
      ]_vars

C9_Witness ==
    \E c \in Callers :
        /\ LookupHit(c)
        /\ ret[c].via = "exact"
        /\ \E r \in cached_responses :
               /\ r.response_id = ret[c].value.response_id
               /\ r.last_served < now

\* C10: in the step in which smart_cache_lookup returns a hit, the returned
\* response's times_served grows by one and its last_served becomes the
\* current time.
C10_EveryHitCounts ==
    [][\A c \in Callers :
          (Returns(c, "smart_cache_lookup") /\ ret'[c].value # None) =>
              \E r \in cached_responses, u \in cached_responses' :
                  /\ r.response_id = ret'[c].value.response_id
                  /\ u.response_id = r.response_id
                  /\ u.times_served = r.times_served + 1
                  /\ u.last_served = now
      ]_vars

\* the step in which caller c's evict_stale_cache returns its two counts
SweepReturns(c) == Returns(c, "evict_stale_cache") /\ ~ret'[c].raised
\* the step in which caller c's sweep runs its DELETEs and commits
SweepDeletes(c) == pc[c] = "evict_delete" /\ SweepReturns(c)
ResponseIds(responses) == {r.response_id : r \in responses}

\* C11: when evict_stale_cache returns, no cached response is left whose
\* last_served is before the cutoff of that sweep and whose times_served is
\* below the usage floor of 5.
C11_StaleEvicted ==
    [][\A c \in Callers :
          SweepReturns(c) =>
              \A r \in cached_responses' :
                  ~(r.last_served < frame[c].cutoff /\ r.times_served < usage_floor)
      ]_vars

\* a sweep has returned after evicting a response served usage_floor - 1
\* times, and a response at the floor is still there
C11_Witness ==
    /\ Returned(Direct, "evict_stale_cache")
    /\ ~ret[Direct].raised
    /\ ret[Direct].value.evicted_responses = 1
    /\ \E r \in cached_responses :
           r.times_served = usage_floor /\ r.last_served < 0 - default_days_old
    /\ Cardinality(user_queries) = MaxSeeds

\* C12: a response that evict_stale_cache deletes has, in the state it is
\* deleted in, times_served below the usage floor and last_served before the
\* cutoff of that sweep.
C12_EvictionSafety ==
    [][\A c \in Callers :
          SweepDeletes(c) =>
              \A r \in cached_responses :
                  r.response_id \notin ResponseIds(cached_responses') =>
                      /\ r.times_served < usage_floor
                      /\ r.last_served < frame[c].cutoff
      ]_vars

\* C13: every citation row references a paper that exists; in particular the
\* sweep deletes no paper that a citation of a remaining response references.
C13_CitationsReferToPapers ==
    \A x \in response_citations :
        /\ \E p \in research_papers : p.paper_id = x.paper_id
        /\ \E r \in cached_responses : r.response_id = x.response_id

\* a promotion has stored a response citing paper 1, and a later sweep has
\* removed papers while that citation and its paper stayed
C13_Witness ==
    /\ Returned(Direct, "evict_stale_cache")
    /\ ~ret[Direct].raised
    /\ ret[Direct].value.evicted_papers >= 1
    /\ \E r \in cached_responses, x \in response_citations :
           /\ r.response_text = auto_response("p1")
           /\ x.response_id = r.response_id
           /\ \E p \in research_papers :
                  /\ p.paper_id = x.paper_id
                  /\ p.times_used < paper_usage_floor
                  /\ p.last_accessed < 0 - default_days_old

\* the step in which check_auto_cache_eligibility returns its rows
CheckReturns(c) == Returns(c, "check_auto_cache_eligibility") /\ ~ret'[c].raised
Uncited(p) == \A x \in response_citations : x.paper_id # p.paper_id

\* C14: check_auto_cache_eligibility returns a paper if and only if its
\* times_used exceeds 20 and no cached response cites it.
C14_EligibleIffAboveThreshold ==
    [][\A c \in Callers :
          CheckReturns(c) =>
              ret'[c].value.candidates =
                  {p.paper_id : p \in {q \in research_papers :
                                          q.times_used > promotion_threshold /\ Uncited(q)}}
      ]_vars

\* C14, amended: check_auto_cache_eligibility returns only papers whose
\* times_used is at least 20 and which no citation references; it returns all
\* of them when they are at most 10, and otherwise 10 of them, none used less
\* than one it leaves out.
C14_EligibleFromThresholdUpToLimit ==
    [][\A c \in Callers :
          CheckReturns(c) =>
              LET eligible == {q \in research_papers :
                                  q.times_used >= promotion_threshold /\ Uncited(q)}
                  returned == {q \in research_papers :
                                  q.paper_id \in ret'[c].value.candidates}
              IN /\ returned \subseteq eligible
                 /\ Cardinality(returned) = Cardinality(ret'[c].value.candidates)
                 /\ Cardinality(returned) = Min(promotion_limit, Cardinality(eligible))
                 /\ \A p \in returned, q \in eligible \ returned :
                        p.times_used >= q.times_used
      ]_vars

\* a check has returned a full page that holds a paper used exactly 20 times
\* and leaves an eligible paper out
C14_Witness ==
    /\ Returned(Direct, "check_auto_cache_eligibility")
    /\ ~ret[Direct].raised
    /\ Cardinality(ret[Direct].value.candidates) = promotion_limit
    /\ \E p \in research_papers :
           p.paper_id \in ret[Direct].value.candidates
           /\ p.times_used = promotion_threshold
    /\ \E p \in research_papers :
           /\ p.paper_id \notin ret[Direct].value.candidates
           /\ p.times_used >= promotion_threshold
           /\ Uncited(p)

\* C15: a sweep in which the deletion of a stale response fails still
\* deletes the other stale responses it selected and the unused papers.
C15_BestEffortSweep ==
    [][\A c \in Callers :
          (pc[c] = "evict_delete" /\ Returns(c, "evict_stale_cache")
              /\ ret'[c].raised) =>
              /\ Cardinality(ResponseIds(cached_responses') \cap frame[c].stale) <= 1
              /\ \A p \in research_papers' :
                     ~(/\ p.last_accessed < frame[c].cutoff
                       /\ p.times_used < paper_usage_floor
                       /\ \A x \in response_citations' : x.paper_id # p.paper_id)
      ]_vars

\* C17: a response that smart_cache_lookup returns as a hit exists when the
\* lookup returns, and a response the sweep deletes is stale for the sweep's
\* cutoff in the state it is deleted in.
C17_ServedNotEvicted ==
    [][\A c \in Callers :
          /\ (Returns(c, "smart_cache_lookup") /\ ret'[c].value # None) =>
                 ret'[c].value.response_id \in ResponseIds(cached_responses')
          /\ SweepDeletes(c) =>
                 \A r \in cached_responses :
                     r.response_id \notin ResponseIds(cached_responses') =>
                         r.last_served < frame[c].cutoff /\ r.times_served < usage_floor
      ]_vars

\* the step in which caller c's fuzzy lookup runs its UPDATE and returns
UpdateStep(c) == pc[c] = "lookup_update" /\ pc'[c] # "lookup_update"
ServedOf(responses, response_id) ==
    {r.times_served : r \in {x \in responses : x.response_id = response_id}}

\* C18: every fuzzy hit raises times_served of the response it returns by
\* exactly one above the value the response has when the UPDATE runs, whatever
\* other lookups read or wrote in between, so n hits on one response leave it
\* n higher.
C18_NoLostIncrement ==
    [][\A c \in Callers :
          UpdateStep(c) =>
              /\ \A r \in cached_responses :
                     IF r.response_id = frame[c].match.response_id
                     THEN ServedOf(cached_responses', r.response_id) = {r.times_served + 1}
                     ELSE ServedOf(cached_responses', r.response_id) = {r.times_served}
              /\ Cardinality(cached_responses') = Cardinality(cached_responses)
      ]_vars

\* both callers have returned response 1 as a fuzzy hit, and it has been
\* served more often than lookups run one after the other can bring about:
\* the two lookups overlapped
C18_Witness ==
    /\ \A c \in Callers :
           /\ LookupHit(c)
           /\ ret[c].via = "fuzzy"
           /\ ret[c].value.response_id = 1
    /\ ServedOf(cached_responses, 1) = {usage_floor + MaxServed + 1}

\* C16: process_query never ends with the storage error of a failed cache
\* lookup: it returns an answer, computed afresh when the lookup failed.
C16_FailClosed ==
    [][\A c \in Callers :
          Returns(c, "process_query") =>
              /\ ~ret'[c].raised
              /\ ret'[c].value # None
      ]_vars

empty_fingerprint == calculate_query_hash(<<>>)
DegenerateEntries == {e \in CacheEntries : e[1].query_text \in DegenerateQueries}

\* C19: a store of a raw query made of stop words and punctuation only (the
\* empty string included) returns a key and files the entry under the empty
\* normalized text and its fingerprint; a lookup of such a query returns
\* without an error, and it is a hit exactly when some such entry is stored,
\* the hit being one of those entries.
C19_DegenerateQueriesLegal ==
    [][\A c \in Callers :
          /\ (Returns(c, "store_in_cache") /\ ret'[c].query \in DegenerateQueries) =>
                 /\ ~ret'[c].raised
                 /\ \E e \in CacheEntries' :
                        /\ e[2].response_id = ret'[c].value.response_id
                        /\ e[1].query_text = ret'[c].query
                        /\ e[1].normalized_text = <<>>
                        /\ e[1].query_hash = empty_fingerprint
          /\ (Returns(c, "smart_cache_lookup") /\ ret'[c].query \in DegenerateQueries) =>
                 /\ ~ret'[c].raised
                 /\ ret'[c].value # None <=> DegenerateEntries # {}
                 /\ ret'[c].value # None =>
                        \E e \in DegenerateEntries :
                            e[2].response_id = ret'[c].value.response_id
      ]_vars

\* the lookup of the empty string has returned an entry stored for "Of the?"
C19_Witness ==
    /\ LookupHit(Direct)
    /\ ret[Direct].query = q_empty
    /\ \E e \in CacheEntries :
           /\ e[2].response_id = ret[Direct].value.response_id
           /\ e[1].query_text = q_of_the
    /\ \E e \in CacheEntries : e[1].query_text = q_gym_run

PapersOf(papers, pmid) == {p \in papers : p.pmid = pmid}

\* C20: research_papers never holds two rows of one pmid; a save_paper call
\* for a pmid that has no row creates one and returns its paper_id; a call
\* for a pmid that has a row raises no error, returns the paper_id of that
\* row and leaves the row with times_used one higher.
C20_PaperUpsert ==
    [][/\ \A p \in research_papers', q \in research_papers' : p.pmid = q.pmid => p = q
       /\ \A c \in Callers :
              Returns(c, "save_paper") =>
                  /\ ~ret'[c].raised
                  /\ \E u \in PapersOf(research_papers', ret'[c].value.pmid) :
                         /\ u.paper_id = ret'[c].value.paper_id
                         /\ IF PapersOf(research_papers, u.pmid) = {}
                            THEN \A p \in research_papers : p.paper_id # u.paper_id
                            ELSE \A p \in PapersOf(research_papers, u.pmid) :
                                     /\ u.paper_id = p.paper_id
                                     /\ u.times_used = p.times_used + 1
      ]_vars

\* both callers have saved pmid p1, one after the other: the same paper_id
\* came back and the row has been used once more than when it was created
C20_Witness ==
    /\ \A c \in Callers :
           /\ Returned(c, "save_paper")
           /\ ~ret[c].raised
           /\ ret[c].value.pmid = "p1"
           /\ ret[c].value.paper_id = ret[Direct].value.paper_id
    /\ \E p \in research_papers : p.pmid = "p1" /\ p.times_used = times_used_default + 1
    /\ \E p \in research_papers : p.pmid = "p2"

EntriesOfText(entries, query) == {e \in entries : e[1].query_text = query}

\* C21: a process_query(q) of the integration that completes on the miss path
\* leaves an entry for q holding the response it returned, and a
\* process_query(q) for which such an entry is stored returns cache_hit = True
\* with that entry's response.
C21_RepeatServedFromCache ==
    [][\A c \in Callers :
          Returns(c, "integration_query") =>
              /\ (~ret'[c].raised /\ ~ret'[c].value.cached /\ ~ret'[c].value.error) =>
                     \E e \in EntriesOfText(CacheEntries', ret'[c].query) :
                         e[2].response_text = ret'[c].value.response
              /\ EntriesOfText(CacheEntries, ret'[c].query) # {} =>
                     /\ ~ret'[c].raised
                     /\ ret'[c].value.cached
                     /\ \A e \in EntriesOfText(CacheEntries, ret'[c].query) :
                            e[2].response_text = ret'[c].value.response
      ]_vars

\* the second process_query of one text has returned the stored response
C21_Witness ==
    /\ Returned(Direct, "integration_query")
    /\ ~ret[Direct].raised
    /\ ret[Direct].value.cached
    /\ ret[Direct].via = "exact"
    /\ \E e \in EntriesOfText(CacheEntries, ret[Direct].query) :
           e[2].response_text = ret[Direct].value.response

PipelineOps == {"process_query", "integration_query", "main_query"}
\* where a request stands while it consults the cache
ConsultingCache == {"lookup_exact", "lookup_fuzzy", "lookup_update",
                    "main_check_cache", "main_hit"}
PipelineReturns(c) == \E op \in PipelineOps : Returns(c, op)

\* C22: a process_query that returns a cached answer returns it straight from
\* the cache lookup, with the text of a stored response, and no step of the
\* request up to then has saved a paper or stored a response or a citation.
C22_HitBypassesPipeline ==
    [][\A c \in Callers :
          /\ (PipelineReturns(c) /\ ~ret'[c].raised /\ ret'[c].value.cached) =>
                 /\ pc[c] \in ConsultingCache
                 /\ \E r \in cached_responses : r.response_text = ret'[c].value.response
          /\ (frame[c].op \in PipelineOps /\ pc[c] \in ConsultingCache
                 /\ pc'[c] # pc[c]) =>
                 /\ ResponseIds(cached_responses') = ResponseIds(cached_responses)
                 /\ research_papers' = research_papers
                 /\ response_citations' = response_citations
      ]_vars

\* main.py has answered from an entry that another pipeline stored
C22_Witness ==
    /\ Returned(Direct, "main_query")
    /\ ~ret[Direct].raised
    /\ ret[Direct].value.cached
    /\ \E e \in CacheEntries :
           /\ e[2].response_text = ret[Direct].value.response
           /\ e[1].normalized_text # NullText

\* C23: a sweep deletes, in the same run, every paper last accessed before
\* the cutoff and under the paper usage floor whose citations all belong to
\* responses that run evicts, together with those citations; the counts it
\* returns are the numbers of responses and of papers it removed.
C23_OrphansRemovedInSameSweep ==
    [][\A c \in Callers :
          SweepDeletes(c) =>
              LET evicted == ResponseIds(cached_responses) \ ResponseIds(cached_responses')
                  orphaned == {p \in research_papers :
                                  /\ p.last_accessed < frame[c].cutoff
                                  /\ p.times_used < paper_usage_floor
                                  /\ \A x \in response_citations :
                                         x.paper_id = p.paper_id => x.response_id \in evicted}
              IN /\ orphaned \cap research_papers' = {}
                 /\ \A x \in response_citations' : x.response_id \notin evicted
                 /\ ret'[c].value.evicted_responses = Cardinality(evicted)
                 /\ ret'[c].value.evicted_papers =
                        Cardinality(research_papers \ research_papers')
      ]_vars

\* a sweep has evicted the one response citing paper 1 and, with it, paper 1
\* and the paper nothing cited
C23_Witness ==
    /\ Returned(Direct, "evict_stale_cache")
    /\ ~ret[Direct].raised
    /\ ret[Direct].value.evicted_responses = 1
    /\ ret[Direct].value.evicted_papers = 2
    /\ research_papers = {}
    /\ cached_responses = {}


\* C24: the two-word synonym phrase is replaced exactly when its words are
\* adjacent, in that order, in the query as the user wrote it: for a query
\* that mentions "monohydrate", the fingerprint text has lost that word if
\* and only if the lowercased original query contains "creatine monohydrate"
C24_PhraseReplacedWhenAdjacent ==
    [][\A c \in Callers :
          (/\ Returns(c, "fingerprint")
           /\ Contains(lower(ret'[c].query), w_monohydrate)) =>
              (Contains(lower(ret'[c].query), phrase_creatine_monohydrate)
                  <=> ~Contains(ret'[c].value.text, w_monohydrate))]_vars

\* C28: apply_synonyms applied to its own output changes nothing, and a
\* query that already uses the normalized term gets the fingerprint text of
\* the query that uses the informal one
C28_SynonymsIdempotent ==
    [][/\ \A c \in Callers :
             (Returns(c, "apply_synonyms") /\ ret'[c].via = "again")
                 => ret'[c].value.text = ret'[c].query
       /\ \A c, d \in Callers :
             (/\ Returned(c, "fingerprint")' /\ Returned(d, "fingerprint")'
              /\ <<ret'[c].query, ret'[d].query>> \in CanonicalPairs)
                 => ret'[c].value.text = ret'[d].value.text]_vars


\* every stored query has its response and every response its query
NoPartialEntry ==
    /\ \A q \in user_queries : \E r \in cached_responses : r.query_id = q.query_id
    /\ \A r \in cached_responses : \E q \in user_queries : q.query_id = r.query_id

\* C25: once a store_in_cache of the app pipeline has failed on a connection
\* (the failure was caught), every later process_query on that connection
\* still ends with an answer rather than with an exception, and the tables
\* never hold a stored query without its response or a response without its
\* query.
C25_StoreFailureContained ==
    [][/\ \A c \in Callers :
             (/\ Returns(c, "process_query")
              /\ conn[c] = "aborted"
              /\ pc[c] # "store_response")
                 => (~ret'[c].raised /\ ret'[c].value # None)
       /\ NoPartialEntry'
      ]_vars


\* C26: every request that main.py's process_query handles adds exactly one
\* row to user_queries, and that row has cache_hit = TRUE only if the
\* request was answered from the cache.
C26_CacheHitFlagAccurate ==
    [][\A c \in Callers :
          Returns(c, "main_query") =>
              LET logged == user_queries' \ user_queries
              IN /\ Cardinality(logged) = 1
                 /\ \A q \in logged : q.cache_hit => ret'[c].value.cached
      ]_vars

\* C29: no pipeline writes the error text of a failed generation to
\* cached_responses.
C29_FailedGenerationNeverCached ==
    \A r \in cached_responses :
        /\ r.response_text # generation_error_text
        /\ r.response_text # error_answer.response


\* the entries that store_in_cache wrote for this raw text
StoredByCache(entries, query) ==
    {e \in EntriesOfText(entries, query) : e[1].normalized_text # NullText}

\* C30: the app's process_query stores a cached response only for a query for
\* which it consults the cache (one of at least MinCacheWords words), and a
\* process_query of a text that already has a stored entry is answered from
\* the cache and adds no cached response.
C30_LookupAndStoreGuardedAlike ==
    [][\A c \in Callers :
          /\ (pc[c] = "store_response" /\ cached_responses' # cached_responses)
                 => word_count(frame[c].query) >= MinCacheWords
          /\ (/\ Returns(c, "process_query")
              /\ StoredByCache(CacheEntries, ret'[c].query) # {})
                 => (/\ ~ret'[c].raised
                     /\ ret'[c].value.cached
                     /\ cached_responses' = cached_responses)
      ]_vars


\* the cached responses that cite paper paper_id
ResponsesCiting(responses, citations, paper_id) ==
    {r \in responses : \E x \in citations :
         x.response_id = r.response_id /\ x.paper_id = paper_id}
\* the synthetic responses that promotions have stored for paper p
SyntheticFor(responses, citations, p) ==
    {r \in ResponsesCiting(responses, citations, p.paper_id) :
         r.response_text = auto_response(p.pmid)}
TriggerReturns(c) == Returns(c, "trigger_auto_cache") /\ ~ret'[c].raised

\* C27: when trigger_auto_cache(p) returns True a cached response citing p
\* exists; check_auto_cache_eligibility returns no paper that a cached
\* response cites, so the trigger_auto_cache that a promotion sweep runs for a
\* paper it was handed leaves exactly one synthetic entry for that paper; and
\* when paper p does not exist trigger_auto_cache returns False and changes
\* no table.
C27_PromotionTakesEffectOnce ==
    [][\A c \in Callers :
          /\ (TriggerReturns(c) /\ ret'[c].value.cached) =>
                 ResponsesCiting(cached_responses', response_citations',
                                 frame[c].papers[1]) # {}
          /\ CheckReturns(c) =>
                 \A paper_id \in ret'[c].value.candidates :
                     ResponsesCiting(cached_responses, response_citations,
                                     paper_id) = {}
          /\ (TriggerReturns(c) /\ ret'[c].value.cached /\ frame[c].match # None) =>
                 \A p \in research_papers :
                     p.paper_id = frame[c].papers[1] =>
                         Cardinality(SyntheticFor(cached_responses',
                                                  response_citations', p)) = 1
          /\ (/\ Returns(c, "trigger_auto_cache")
              /\ conn[c] = "ok"
              /\ \A p \in research_papers : p.paper_id # frame[c].papers[1]) =>
                 (/\ ~ret'[c].raised
                  /\ ~ret'[c].value.cached
                  /\ UNCHANGED tables)
      ]_vars

\* a sweep has promoted a paper, and the next check, with the synthetic
\* response still stored and the paper still used often enough, has come
\* back without it
C27_Witness ==
    /\ Returned(Direct, "check_auto_cache_eligibility")
    /\ ~ret[Direct].raised
    /\ \E p \in research_papers :
           /\ p.times_used >= promotion_threshold
           /\ SyntheticFor(cached_responses, response_citations, p) # {}
           /\ p.paper_id \notin ret[Direct].value.candidates

====
